---- MODULE Spec2Model ----
(***************************************************************************)
(* Execution barriers of custom_components/ideenergy/barrier.py.           *)
(*                                                                         *)
(* A TimeWindowBarrier is modelled as a state machine over its four state  *)
(* fields and its three configuration fields.  Timestamps are whole        *)
(* seconds since the epoch (UTC); durations are whole seconds.             *)
(* A TimeDeltaBarrier has the configuration field delta and the state      *)
(* field last_success; a NoopBarrier has neither configuration nor state.  *)
(*                                                                         *)
(* Spec          the barrier driven by an arbitrary caller: any method,    *)
(*               in any order, with any timestamp.                         *)
(* ProtocolSpec  the barrier driven by a caller that follows the calling   *)
(*               protocol: success/fail only after an allowed check, one   *)
(*               outcome per attempt, timestamps that never go back.       *)
(* VariantSpec   a barrier of any of the three classes, driven by an       *)
(*               arbitrary caller through check, success, fail and dump.   *)
(* CallFormSpec  a TimeWindowBarrier or TimeDeltaBarrier whose methods are  *)
(*               called with now passed by keyword or by position, and     *)
(*               with values that are not datetimes.                       *)
(* PollSpec      a TimeWindowBarrier brought to some state by arbitrary    *)
(*               calls, then polled by check once a minute.                *)
(* RecorderSpec  HistoricalSensor of historical_sensor.py writing its      *)
(*               historical states into the states table of the recorder.  *)
(***************************************************************************)
EXTENDS Integers, FiniteSets, Sequences, TLC

VARIABLES
    allowed_window_minutes, \* config: <<low, high>>, minutes of the local hour
    max_retries,            \* config
    max_age,                \* config: seconds
    local_tz,               \* environment: UTC offset (seconds) of the local zone
    variant,                \* the class of the barrier
    delta,                  \* config of a TimeDeltaBarrier: seconds
    force_next,             \* state
    failures,               \* state
    last_success,           \* state
    cooldown,               \* state
    op,                     \* observation: the last method called
    now,                    \* observation: the timestamp the last call worked with
    result,                 \* observation: what the last call returned or raised
    pending,                \* caller: an allowed check awaits its success/fail
    prev_success,           \* caller: last_success as it was before the last
                            \*         success the protocol caller reported
    everForced,             \* history: force_next() has been called
    exhausted_at,           \* history: now of the last fail call that left
                            \*          failures >= max_retries; zero_dt if none
    streak,                 \* history: fail calls made so far, on a barrier that
                            \*          has seen only fail and check calls; else -1
    call,                   \* observation: how the last call passed now and
                            \*   what kind of value (only recorded where the
                            \*   forms of call differ)
    polling,                \* caller: it reports no more outcome and calls
                            \*   check once a minute
    last_success_tzinfo,    \* state: what kind of value last_success holds
    cooldown_tzinfo,        \* state: what kind of value cooldown holds
    historical_states,      \* HistoricalSensor._historical_states
    States,                 \* recorder: the rows of the states table
    executor_jobs           \* recorder: the jobs handed to its executor

config == <<allowed_window_minutes, max_retries, max_age, local_tz, variant, delta>>
state  == <<force_next, failures, last_success, cooldown>>
vars   == <<allowed_window_minutes, max_retries, max_age, local_tz,
            variant, delta,
            force_next, failures, last_success, cooldown,
            op, now, result, pending, prev_success, everForced,
            exhausted_at, streak, call, polling,
            last_success_tzinfo, cooldown_tzinfo,
            historical_states, States, executor_jobs>>

\* the tzinfo of the two datetimes a barrier stores
tzinfos == <<last_success_tzinfo, cooldown_tzinfo>>

\* the historical sensor and the recorder it writes to: no method of a barrier
\* reaches them
recorder == <<historical_states, States, executor_jobs>>

----------------------------------------------------------------------------
(* Bounds of the model *)

\* number of clock hours the caller's timestamps are drawn from
Hours == 2

\* fail() is not called any more once failures has reached this value
MaxFailures == 4

\* the longest list a provider leaves in _historical_states
MaxStates == 2

----------------------------------------------------------------------------
(* Time *)

SecondsPerMinute == 60
SecondsPerHour == 3600

\* dt_util.utc_from_timestamp(0)
zero_dt == 0

\* dt_util.as_local(t).minute: minute of the hour on the local wall clock
LocalMinute(t) == ((t + local_tz) \div SecondsPerMinute) % 60

\* the hour (counted from the epoch) on the local wall clock
LocalHour(t) == (t + local_tz) \div SecondsPerHour

low == allowed_window_minutes[1]
high == allowed_window_minutes[2]

----------------------------------------------------------------------------
(* Configurations and inputs *)

\* barriers the model is run for; the first is the one of the scenarios
Configs ==
    { [window |-> <<0, 10>>, retries |-> 3, age |-> 7200, tz |-> 0],
      [window |-> <<5, 5>>,  retries |-> 2, age |-> 3600, tz |-> 1800] }

\* seconds of the local hour the caller's clock is read at: the first second
\* of the window, the first, second and last second of its last minute and
\* the first second after it
Marks ==
    { low * SecondsPerMinute,
      high * SecondsPerMinute,
      high * SecondsPerMinute + 1,
      high * SecondsPerMinute + 59,
      (high + 1) * SecondsPerMinute }

\* the instants (UTC) the caller passes or the clock returns
Instants ==
    { h * SecondsPerHour + m - local_tz : h \in 1..Hours, m \in Marks }

\* tzinfo of a datetime: None (naive), UTC, or some other zone
TzInfos == {"naive", "utc", "other"}

\* now=None, the default of every method
None == [wall |-> zero_dt, tzinfo |-> "absent"]

\* a datetime given as now: its wall-clock fields (as seconds) and its tzinfo
Datetimes == [wall : Instants, tzinfo : TzInfos]

NowArgs == {None} \cup Datetimes

----------------------------------------------------------------------------
(* check_tzinfo("now", optional=True): the decorator of check/success/fail *)

\* what the wrapper hands to the method as now, for a call made with now=arg:
\* None is passed through, a datetime gets tzinfo=UTC with its wall-clock
\* fields unchanged (dt.replace(tzinfo=default_tzinfo))
check_tzinfo(arg) ==
    IF arg = None THEN None ELSE [wall |-> arg.wall, tzinfo |-> "utc"]

\* now = now or self.utcnow(): the instant the method body works with; clk is
\* the instant utcnow() returns
NowOrUtcnow(arg, clk) ==
    IF check_tzinfo(arg) = None THEN clk ELSE check_tzinfo(arg).wall

\* the instants utcnow() may return: it is read only when now is None
Clock(arg) == IF arg = None THEN Instants ELSE {zero_dt}

----------------------------------------------------------------------------
(* TimeWindowBarrier.check *)

\* mutant: the last minute of the window is left out
update_window_is_open_Exclusive(t) ==
    low <= LocalMinute(t) /\ LocalMinute(t) < high

update_window_is_open(t) == low <= LocalMinute(t) /\ LocalMinute(t) <= high

last_success_age(t) == t - last_success

\* mutant: the width of the window is taken in minutes, not seconds
min_age_Minutes == high - low

min_age == (high - low) * SecondsPerMinute

\* mutant: failures is never reset by check
LazyReset_Never(t) == failures

\* mutant: the reset does not wait for the cooldown instant
LazyReset_IgnoresCooldown(t) ==
    IF failures >= max_retries THEN 0 ELSE failures

\* failures after the cooldown test at the top of check
LazyReset(t) ==
    IF failures >= max_retries /\ t >= cooldown THEN 0 ELSE failures

\* mutant: the cooldown rule is tested before the force override
Decide_CooldownFirst(t, f) ==
    IF t < cooldown THEN "COOLDOWN"
    ELSE IF force_next THEN "ok"
    ELSE IF f > 0 /\ f < max_retries THEN "ok"
    ELSE IF ~update_window_is_open(t) THEN "UPDATE_WINDOW_CLOSED"
    ELSE IF last_success_age(t) <= min_age THEN "NO_DELTA"
    ELSE "ok"

\* mutant: the retry rule is tested before the cooldown rule
Decide_RetryFirst(t, f) ==
    IF force_next THEN "ok"
    ELSE IF f > 0 /\ f < max_retries THEN "ok"
    ELSE IF t < cooldown THEN "COOLDOWN"
    ELSE IF ~update_window_is_open(t) THEN "UPDATE_WINDOW_CLOSED"
    ELSE IF last_success_age(t) <= min_age THEN "NO_DELTA"
    ELSE "ok"

\* mutant: the window rule is tested before the retry rule
Decide_WindowFirst(t, f) ==
    IF force_next THEN "ok"
    ELSE IF t < cooldown THEN "COOLDOWN"
    ELSE IF ~update_window_is_open(t) THEN "UPDATE_WINDOW_CLOSED"
    ELSE IF f > 0 /\ f < max_retries THEN "ok"
    ELSE IF last_success_age(t) <= min_age THEN "NO_DELTA"
    ELSE "ok"

\* mutant: the delta rule is missing
Decide_NoDelta(t, f) ==
    IF force_next THEN "ok"
    ELSE IF t < cooldown THEN "COOLDOWN"
    ELSE IF f > 0 /\ f < max_retries THEN "ok"
    ELSE IF ~update_window_is_open(t) THEN "UPDATE_WINDOW_CLOSED"
    ELSE "ok"

\* the outcome of check at instant t, f being failures after the lazy reset:
\* "ok" when it returns, else the code of the BarrierDeniedError it raises
Decide(t, f) ==
    IF force_next THEN "ok"
    ELSE IF t < cooldown THEN "COOLDOWN"
    ELSE IF f > 0 /\ f < max_retries THEN "ok"
    ELSE IF ~update_window_is_open(t) THEN "UPDATE_WINDOW_CLOSED"
    ELSE IF last_success_age(t) <= min_age THEN "NO_DELTA"
    ELSE "ok"

\* the outcome of check(now=t) in the current state
Decision(t) == Decide(t, LazyReset(t))

\* mutant: an allowed check uses the force override up
check_ConsumesForce(arg, clk) ==
    LET t == NowOrUtcnow(arg, clk) IN
    /\ failures' = LazyReset(t)
    /\ result' = Decide(t, LazyReset(t))
    /\ force_next' = FALSE
    /\ op' = "check"
    /\ now' = t
    /\ UNCHANGED <<last_success, cooldown>>
    /\ UNCHANGED config
    /\ UNCHANGED <<tzinfos, recorder, call, polling>>

\* mutant: the lazy reset ends the cooldown as well
check_ClearsCooldown(arg, clk) ==
    LET t == NowOrUtcnow(arg, clk) IN
    /\ failures' = LazyReset(t)
    /\ cooldown' = IF LazyReset(t) # failures THEN zero_dt ELSE cooldown
    /\ result' = Decide(t, LazyReset(t))
    /\ op' = "check"
    /\ now' = t
    /\ UNCHANGED <<force_next, last_success>>
    /\ UNCHANGED config
    /\ UNCHANGED <<tzinfos, recorder, call, polling>>

check(arg, clk) ==
    LET t == NowOrUtcnow(arg, clk) IN
    /\ failures' = LazyReset(t)
    /\ result' = Decide(t, LazyReset(t))
    /\ op' = "check"
    /\ now' = t
    /\ UNCHANGED <<force_next, last_success, cooldown>>
    /\ UNCHANGED config
    /\ UNCHANGED <<tzinfos, recorder, call, polling>>

----------------------------------------------------------------------------
(* TimeWindowBarrier.force_next, success, fail *)

set_force_next ==
    /\ force_next' = TRUE
    /\ op' = "force_next"
    /\ result' = "ok"
    /\ UNCHANGED <<failures, last_success, cooldown, now>>
    /\ UNCHANGED config
    /\ UNCHANGED <<tzinfos, recorder, call, polling>>

\* mutant: a success also ends the cooldown
success_ClearsCooldown(arg, clk) ==
    LET t == NowOrUtcnow(arg, clk) IN
    /\ force_next' = FALSE
    /\ failures' = 0
    /\ last_success' = t
    /\ cooldown' = zero_dt
    /\ op' = "success"
    /\ now' = t
    /\ result' = "ok"
    /\ UNCHANGED config
    /\ last_success_tzinfo' = "utc"
    /\ UNCHANGED <<cooldown_tzinfo, recorder, call, polling>>

success(arg, clk) ==
    LET t == NowOrUtcnow(arg, clk) IN
    /\ force_next' = FALSE
    /\ failures' = 0
    /\ last_success' = t
    /\ op' = "success"
    /\ now' = t
    /\ result' = "ok"
    /\ UNCHANGED cooldown
    /\ UNCHANGED config
    /\ last_success_tzinfo' = "utc"
    /\ UNCHANGED <<cooldown_tzinfo, recorder, call, polling>>

\* mutant: the cooldown lasts max_age, not half of it
CooldownAfter_FullAge(t) == t + max_age

\* mutant: the cooldown ends at once
CooldownAfter_Now(t) == t

\* cooldown after a failure at t that exhausts the retries
CooldownAfter(t) == t + (max_age \div 2)

\* mutant: every failure clears the force override
fail_AlwaysClearsForce(arg, clk) ==
    LET t == NowOrUtcnow(arg, clk) IN
    /\ failures < MaxFailures
    /\ failures' = failures + 1
    /\ force_next' = FALSE
    /\ IF failures + 1 >= max_retries
       THEN cooldown' = t + (max_age \div 2)
       ELSE UNCHANGED cooldown
    /\ op' = "fail"
    /\ now' = t
    /\ result' = "ok"
    /\ UNCHANGED last_success
    /\ UNCHANGED config
    /\ cooldown_tzinfo' =
          IF failures + 1 >= max_retries THEN "utc" ELSE cooldown_tzinfo
    /\ UNCHANGED <<last_success_tzinfo, recorder, call, polling>>

fail(arg, clk) ==
    LET t == NowOrUtcnow(arg, clk) IN
    /\ failures < MaxFailures
    /\ failures' = failures + 1
    /\ IF failures + 1 >= max_retries
       THEN /\ force_next' = FALSE
            /\ cooldown' = CooldownAfter(t)
       ELSE UNCHANGED <<force_next, cooldown>>
    /\ op' = "fail"
    /\ now' = t
    /\ result' = "ok"
    /\ UNCHANGED last_success
    /\ UNCHANGED config
    /\ cooldown_tzinfo' =
          IF failures + 1 >= max_retries THEN "utc" ELSE cooldown_tzinfo
    /\ UNCHANGED <<last_success_tzinfo, recorder, call, polling>>

----------------------------------------------------------------------------
(* TimeWindowBarrier.__init__ *)

\* no call has been made
NoCall == [form |-> "none", arg |-> "absent"]

\* zero_dt = dt_util.utc_from_timestamp(0) is a datetime in UTC
AwareFields ==
    /\ last_success_tzinfo = "utc"
    /\ cooldown_tzinfo = "utc"

\* a barrier comes with no historical sensor and no recorder
NoRecorder ==
    /\ historical_states = <<>>
    /\ States = <<>>
    /\ executor_jobs = <<>>

Init ==
    /\ \E c \in Configs :
          /\ allowed_window_minutes = c.window
          /\ max_retries = c.retries
          /\ max_age = c.age
          /\ local_tz = c.tz
    /\ variant = "TimeWindow"
    /\ delta = 0
    /\ force_next = FALSE
    /\ failures = 0
    /\ last_success = zero_dt
    /\ cooldown = zero_dt
    /\ op = "init"
    /\ now = zero_dt
    /\ result = "ok"
    /\ pending = FALSE
    /\ prev_success = zero_dt
    /\ everForced = FALSE
    /\ exhausted_at = zero_dt
    /\ streak = 0
    /\ AwareFields
    /\ NoRecorder
    /\ call = NoCall
    /\ polling = FALSE

----------------------------------------------------------------------------
(* Spec: any caller *)

\* streak after one more fail call: it counts up to max_retries and is given
\* up (-1) after that
StreakAfterFail ==
    IF streak >= 0 /\ streak < max_retries THEN streak + 1 ELSE -1

\* exhausted_at after a fail call: the instant of the call if it has left
\* failures >= max_retries
ExhaustedAfterFail ==
    IF failures' >= max_retries THEN now' ELSE exhausted_at

Check ==
    /\ \E arg \in NowArgs : \E clk \in Clock(arg) : check(arg, clk)
    /\ UNCHANGED <<pending, prev_success, everForced, exhausted_at, streak>>

Success ==
    /\ \E arg \in NowArgs : \E clk \in Clock(arg) : success(arg, clk)
    /\ streak' = -1
    /\ UNCHANGED <<pending, prev_success, everForced, exhausted_at>>

Fail ==
    /\ \E arg \in NowArgs : \E clk \in Clock(arg) : fail(arg, clk)
    /\ streak' = StreakAfterFail
    /\ exhausted_at' = ExhaustedAfterFail
    /\ UNCHANGED <<pending, prev_success, everForced>>

ForceNext ==
    /\ set_force_next
    /\ everForced' = TRUE
    /\ streak' = -1
    /\ UNCHANGED <<pending, prev_success, exhausted_at>>

Next == Check \/ Success \/ Fail \/ ForceNext

Spec == Init /\ [][Next]_vars

----------------------------------------------------------------------------
(* ProtocolSpec: a caller that follows the calling protocol *)

\* timestamps never go back: the instant of a call is not before the last one
NotBefore(arg, clk) == NowOrUtcnow(arg, clk) >= now

\* check may be called at any time; the attempt follows only if it allowed
ProtocolCheck ==
    /\ \E arg \in NowArgs : \E clk \in Clock(arg) :
          /\ NotBefore(arg, clk)
          /\ check(arg, clk)
    /\ pending' = (result' = "ok")
    /\ UNCHANGED <<prev_success, everForced, exhausted_at, streak>>

ProtocolSuccess ==
    /\ pending
    /\ \E arg \in NowArgs : \E clk \in Clock(arg) :
          /\ NotBefore(arg, clk)
          /\ success(arg, clk)
    /\ pending' = FALSE
    /\ prev_success' = last_success
    /\ streak' = -1
    /\ UNCHANGED <<everForced, exhausted_at>>

ProtocolFail ==
    /\ pending
    /\ \E arg \in NowArgs : \E clk \in Clock(arg) :
          /\ NotBefore(arg, clk)
          /\ fail(arg, clk)
    /\ pending' = FALSE
    /\ streak' = StreakAfterFail
    /\ exhausted_at' = ExhaustedAfterFail
    /\ UNCHANGED <<prev_success, everForced>>

ProtocolForceNext ==
    /\ set_force_next
    /\ everForced' = TRUE
    /\ streak' = -1
    /\ UNCHANGED <<pending, prev_success, exhausted_at>>

ProtocolNext ==
    ProtocolCheck \/ ProtocolSuccess \/ ProtocolFail \/ ProtocolForceNext

ProtocolSpec == Init /\ [][ProtocolNext]_vars

----------------------------------------------------------------------------
(* TimeDeltaBarrier *)

\* the caller's bookkeeping and the history, which no method of a barrier
\* touches
history == <<pending, prev_success, everForced, exhausted_at, streak>>

\* the values of delta the model is run for
Deltas == {0, 600}

\* the instants (UTC) a TimeDeltaBarrier is called with: the start of a clock
\* hour, and the instants next to it and next to delta seconds after it
DeltaInstants ==
    { h * SecondsPerHour + m :
        h \in 1..Hours, m \in {0, 1, delta - 1, delta, delta + 1} }

DeltaNowArgs == {None} \cup [wall : DeltaInstants, tzinfo : TzInfos]

\* the instants utcnow() may return: it is read only when now is None
DeltaClock(arg) == IF arg = None THEN DeltaInstants ELSE {zero_dt}

\* mutant: an age of exactly delta is denied, as the message of the denial
\* has it
TimeDeltaBarrier_Decision_Inclusive(t) ==
    IF t - last_success <= delta THEN "NO_MAX_AGE" ELSE "ok"

\* the outcome of check at instant t: "ok" when it returns, else the code of
\* the BarrierDeniedError it raises
TimeDeltaBarrier_Decision(t) ==
    IF t - last_success < delta THEN "NO_MAX_AGE" ELSE "ok"

TimeDeltaBarrier_check(arg, clk) ==
    LET t == NowOrUtcnow(arg, clk) IN
    /\ result' = TimeDeltaBarrier_Decision(t)
    /\ op' = "check"
    /\ now' = t
    /\ UNCHANGED state
    /\ UNCHANGED config
    /\ UNCHANGED <<tzinfos, recorder, call, polling>>

TimeDeltaBarrier_success(arg, clk) ==
    LET t == NowOrUtcnow(arg, clk) IN
    /\ last_success' = t
    /\ op' = "success"
    /\ now' = t
    /\ result' = "ok"
    /\ UNCHANGED <<force_next, failures, cooldown>>
    /\ UNCHANGED config
    /\ last_success_tzinfo' = "utc"
    /\ UNCHANGED <<cooldown_tzinfo, recorder, call, polling>>

\* mutant: a failure forgets the last success
TimeDeltaBarrier_fail_Forgets(arg) ==
    /\ last_success' = zero_dt
    /\ op' = "fail"
    /\ now' = NowOrUtcnow(arg, now)
    /\ result' = "ok"
    /\ UNCHANGED <<force_next, failures, cooldown>>
    /\ UNCHANGED config
    /\ UNCHANGED <<tzinfos, recorder, call, polling>>

\* the body is pass: the clock is not read
TimeDeltaBarrier_fail(arg) ==
    /\ op' = "fail"
    /\ now' = NowOrUtcnow(arg, now)
    /\ result' = "ok"
    /\ UNCHANGED state
    /\ UNCHANGED config
    /\ UNCHANGED <<tzinfos, recorder, call, polling>>

\* __init__(delta, last_success=None): last_success or epoch zero; the fields
\* of the other class are not there and keep a fixed value
TimeDeltaInit ==
    /\ variant = "TimeDelta"
    /\ \E d \in Deltas : delta = d
    /\ \E arg \in DeltaNowArgs :
          last_success =
             IF check_tzinfo(arg) = None THEN zero_dt ELSE check_tzinfo(arg).wall
    /\ allowed_window_minutes = <<0, 0>>
    /\ max_retries = 0
    /\ max_age = 0
    /\ local_tz = 0
    /\ force_next = FALSE
    /\ failures = 0
    /\ cooldown = zero_dt
    /\ op = "init"
    /\ now = zero_dt
    /\ result = "ok"
    /\ pending = FALSE
    /\ prev_success = zero_dt
    /\ everForced = FALSE
    /\ exhausted_at = zero_dt
    /\ streak = 0
    /\ AwareFields
    /\ NoRecorder
    /\ call = NoCall
    /\ polling = FALSE

TimeDeltaCheck ==
    /\ variant = "TimeDelta"
    /\ \E arg \in DeltaNowArgs : \E clk \in DeltaClock(arg) :
          TimeDeltaBarrier_check(arg, clk)
    /\ UNCHANGED history

TimeDeltaSuccess ==
    /\ variant = "TimeDelta"
    /\ \E arg \in DeltaNowArgs : \E clk \in DeltaClock(arg) :
          TimeDeltaBarrier_success(arg, clk)
    /\ UNCHANGED history

TimeDeltaFail ==
    /\ variant = "TimeDelta"
    /\ \E arg \in DeltaNowArgs : TimeDeltaBarrier_fail(arg)
    /\ UNCHANGED history

----------------------------------------------------------------------------
(* NoopBarrier *)

\* check(self), success(self), fail(self) take no argument: a call that
\* passes now raises TypeError, a call without it returns
NoopBarrier_call(arg) == IF arg = None THEN "ok" ELSE "TypeError"

NoopBarrier_check(arg) ==
    /\ result' = NoopBarrier_call(arg)
    /\ op' = "check"
    /\ UNCHANGED <<state, now>>
    /\ UNCHANGED config
    /\ UNCHANGED <<tzinfos, recorder, call, polling>>

NoopBarrier_success(arg) ==
    /\ result' = NoopBarrier_call(arg)
    /\ op' = "success"
    /\ UNCHANGED <<state, now>>
    /\ UNCHANGED config
    /\ UNCHANGED <<tzinfos, recorder, call, polling>>

NoopBarrier_fail(arg) ==
    /\ result' = NoopBarrier_call(arg)
    /\ op' = "fail"
    /\ UNCHANGED <<state, now>>
    /\ UNCHANGED config
    /\ UNCHANGED <<tzinfos, recorder, call, polling>>

\* a NoopBarrier has no field: all of them keep a fixed value
NoopInit ==
    /\ variant = "Noop"
    /\ delta = 0
    /\ last_success = zero_dt
    /\ allowed_window_minutes = <<0, 0>>
    /\ max_retries = 0
    /\ max_age = 0
    /\ local_tz = 0
    /\ force_next = FALSE
    /\ failures = 0
    /\ cooldown = zero_dt
    /\ op = "init"
    /\ now = zero_dt
    /\ result = "ok"
    /\ pending = FALSE
    /\ prev_success = zero_dt
    /\ everForced = FALSE
    /\ exhausted_at = zero_dt
    /\ streak = 0
    /\ AwareFields
    /\ NoRecorder
    /\ call = NoCall
    /\ polling = FALSE

NoopCheck ==
    /\ variant = "Noop"
    /\ \E arg \in NowArgs : NoopBarrier_check(arg)
    /\ UNCHANGED history

NoopSuccess ==
    /\ variant = "Noop"
    /\ \E arg \in NowArgs : NoopBarrier_success(arg)
    /\ UNCHANGED history

NoopFail ==
    /\ variant = "Noop"
    /\ \E arg \in NowArgs : NoopBarrier_fail(arg)
    /\ UNCHANGED history

----------------------------------------------------------------------------
(* dump *)

\* the mapping TimeWindowBarrier.dump evaluates to
TimeWindowBarrier_dump ==
    [ max_age |-> max_age,
      max_retries |-> max_retries,
      allowed_window_minutes |-> allowed_window_minutes,
      cooldown |-> cooldown,
      forced |-> force_next,
      last_success |-> last_success,
      retry |-> failures ]

\* the mapping TimeDeltaBarrier.dump() returns
TimeDeltaBarrier_dump ==
    [ max_age |-> delta, last_success |-> last_success ]

\* the keys of the mapping dump gives for the barrier
DumpKeys ==
    CASE variant = "TimeWindow" -> DOMAIN TimeWindowBarrier_dump
      [] variant = "TimeDelta" -> DOMAIN TimeDeltaBarrier_dump
      [] variant = "Noop" -> {}

\* b.dump(): a method of TimeDeltaBarrier and NoopBarrier, which returns the
\* mapping; a property of TimeWindowBarrier, so that the call calls the
\* mapping and raises TypeError
DumpCall ==
    /\ op' = "dump"
    /\ result' = IF variant = "TimeWindow" THEN "TypeError" ELSE "ok"
    /\ UNCHANGED <<state, now>>
    /\ UNCHANGED config
    /\ UNCHANGED <<tzinfos, recorder, call, polling>>
    /\ UNCHANGED history

\* b.dump without a call: the mapping of a TimeWindowBarrier, the bound method
\* of the other two classes
DumpAttribute ==
    /\ op' = "dump attribute"
    /\ result' = IF variant = "TimeWindow" THEN "ok" ELSE "method"
    /\ UNCHANGED <<state, now>>
    /\ UNCHANGED config
    /\ UNCHANGED <<tzinfos, recorder, call, polling>>
    /\ UNCHANGED history

----------------------------------------------------------------------------
(* VariantSpec: a barrier of any class, any caller *)

VariantInit == Init \/ TimeDeltaInit \/ NoopInit

TimeWindowNext == variant = "TimeWindow" /\ Next

VariantNext ==
    \/ TimeWindowNext
    \/ TimeDeltaCheck \/ TimeDeltaSuccess \/ TimeDeltaFail
    \/ NoopCheck \/ NoopSuccess \/ NoopFail
    \/ DumpCall \/ DumpAttribute

VariantSpec == VariantInit /\ [][VariantNext]_vars

----------------------------------------------------------------------------
(* CallFormSpec: check, success and fail called with now passed by keyword or
   by position, and with values that are not datetimes *)

\* b.check(now=x) and b.check(x)
CallForms == {"keyword", "positional"}

\* values that are not datetimes: a non-empty str, and the int 0, which is
\* false in a boolean context (the field tzinfo tells which)
NonDatetimes ==
    { [wall |-> zero_dt, tzinfo |-> "str"],
      [wall |-> zero_dt, tzinfo |-> "int 0"] }

\* the UTC offset (seconds) of the zone of a datetime whose tzinfo is "other"
OtherOffset == SecondsPerHour

\* wall-clock values of the datetimes passed: minute 5 and minute 30 of the
\* first hour and minute 5 of the second, inside and outside the window of the
\* first configuration of Configs
CallInstants ==
    { SecondsPerHour + 5 * SecondsPerMinute,
      SecondsPerHour + 30 * SecondsPerMinute,
      2 * SecondsPerHour + 5 * SecondsPerMinute }

CallArgs ==
    {None} \cup [wall : CallInstants, tzinfo : TzInfos] \cup NonDatetimes

\* what the wrapper of check_tzinfo raises TypeError for
Rejected == [wall |-> zero_dt, tzinfo |-> "TypeError"]

\* what the wrapper hands to the method as now.  param is the str "now", so
\* dt = kwargs.get("now"): a value passed by position is not in kwargs, dt is
\* None and, optional being True, the method is called with the arguments as
\* they came
Wrapper(form, arg) ==
    IF form = "positional" THEN arg
    ELSE IF arg = None THEN None
    ELSE IF arg \in NonDatetimes THEN Rejected
    ELSE check_tzinfo(arg)

\* now = now or self.utcnow(): None and 0 are false
BodyNow(v, clk) ==
    IF v = None \/ v.tzinfo = "int 0"
    THEN [wall |-> clk, tzinfo |-> "utc"]
    ELSE v

\* utcnow() is read only when the method body finds now false
CallClock(form, arg) ==
    IF Wrapper(form, arg) = None \/ Wrapper(form, arg).tzinfo = "int 0"
    THEN CallInstants
    ELSE {zero_dt}

\* the datetimes (or other values) the barrier holds
LastSuccess == [wall |-> last_success, tzinfo |-> last_success_tzinfo]
Cooldown == [wall |-> cooldown, tzinfo |-> cooldown_tzinfo]

Aware(v) == v.tzinfo \in {"utc", "other"}

\* the position of a datetime on the time line of its kind: seconds since the
\* epoch for an aware one, its wall-clock fields for a naive one
Timestamp(v) == IF v.tzinfo = "other" THEN v.wall - OtherOffset ELSE v.wall

\* a - b, a < b, a >= b are defined between two aware or two naive datetimes;
\* they raise TypeError for any other pair
Comparable(a, b) ==
    \/ Aware(a) /\ Aware(b)
    \/ a.tzinfo = "naive" /\ b.tzinfo = "naive"

\* dt_util.as_local(v).minute: a naive datetime is taken as local time
AsLocalMinute(v) ==
    IF v.tzinfo = "naive"
    THEN (v.wall \div SecondsPerMinute) % 60
    ELSE LocalMinute(Timestamp(v))

\* failures after the cooldown test at the top of check
CallLazyReset(v) ==
    IF failures >= max_retries /\ Timestamp(v) >= Timestamp(Cooldown)
    THEN 0
    ELSE failures

\* the body of TimeWindowBarrier.check run with now = v: what it returns or
\* raises.  Every statement that can raise TypeError comes before the one
\* assignment of the method or needs the same pair of values as a test that
\* has passed before it
TimeWindowBarrier_check_outcome(v) ==
    IF v.tzinfo = "str" THEN "AttributeError"
    ELSE IF ~Comparable(v, LastSuccess) THEN "TypeError"
    ELSE IF failures >= max_retries /\ ~Comparable(v, Cooldown) THEN "TypeError"
    ELSE IF force_next THEN "ok"
    ELSE IF ~Comparable(v, Cooldown) THEN "TypeError"
    ELSE IF Timestamp(v) < Timestamp(Cooldown) THEN "COOLDOWN"
    ELSE IF CallLazyReset(v) > 0 /\ CallLazyReset(v) < max_retries THEN "ok"
    ELSE IF ~(low <= AsLocalMinute(v) /\ AsLocalMinute(v) <= high)
         THEN "UPDATE_WINDOW_CLOSED"
    ELSE IF Timestamp(v) - Timestamp(LastSuccess) <= min_age THEN "NO_DELTA"
    ELSE "ok"

\* the body of TimeDeltaBarrier.check run with now = v
TimeDeltaBarrier_check_outcome(v) ==
    IF ~Comparable(v, LastSuccess) THEN "TypeError"
    ELSE IF Timestamp(v) - Timestamp(LastSuccess) < delta THEN "NO_MAX_AGE"
    ELSE "ok"

Errors == {"TypeError", "AttributeError"}

\* the call the wrapper rejects: the method body does not run
call_rejected(method, form, arg) ==
    /\ Wrapper(form, arg) = Rejected
    /\ op' = method
    /\ call' = [form |-> form, arg |-> arg.tzinfo]
    /\ result' = "TypeError"
    /\ UNCHANGED <<state, tzinfos, now>>

call_check(form, arg, clk) ==
    LET v == BodyNow(Wrapper(form, arg), clk)
        outcome == IF variant = "TimeWindow"
                   THEN TimeWindowBarrier_check_outcome(v)
                   ELSE TimeDeltaBarrier_check_outcome(v)
    IN
    /\ Wrapper(form, arg) # Rejected
    /\ op' = "check"
    /\ call' = [form |-> form, arg |-> arg.tzinfo]
    /\ now' = v.wall
    /\ result' = outcome
    /\ failures' = IF variant = "TimeWindow" /\ outcome \notin Errors
                   THEN CallLazyReset(v)
                   ELSE failures
    /\ UNCHANGED <<force_next, last_success, cooldown, tzinfos>>

\* the bodies of TimeWindowBarrier.success and TimeDeltaBarrier.success keep
\* now whatever it is
call_success(form, arg, clk) ==
    LET v == BodyNow(Wrapper(form, arg), clk) IN
    /\ Wrapper(form, arg) # Rejected
    /\ op' = "success"
    /\ call' = [form |-> form, arg |-> arg.tzinfo]
    /\ now' = v.wall
    /\ result' = "ok"
    /\ last_success' = v.wall
    /\ last_success_tzinfo' = v.tzinfo
    /\ IF variant = "TimeWindow"
       THEN force_next' = FALSE /\ failures' = 0
       ELSE UNCHANGED <<force_next, failures>>
    /\ UNCHANGED <<cooldown, cooldown_tzinfo>>

\* TimeWindowBarrier.fail counts the failure first; now + max_age / 2 raises
\* TypeError for a str.  TimeDeltaBarrier.fail is pass
call_fail(form, arg, clk) ==
    LET v == BodyNow(Wrapper(form, arg), clk) IN
    /\ Wrapper(form, arg) # Rejected
    /\ op' = "fail"
    /\ call' = [form |-> form, arg |-> arg.tzinfo]
    /\ now' = v.wall
    /\ IF variant = "TimeWindow"
       THEN /\ failures < MaxFailures
            /\ failures' = failures + 1
            /\ IF failures + 1 >= max_retries
               THEN /\ force_next' = FALSE
                    /\ IF v.tzinfo = "str"
                       THEN /\ result' = "TypeError"
                            /\ UNCHANGED <<cooldown, cooldown_tzinfo>>
                       ELSE /\ result' = "ok"
                            /\ cooldown' = v.wall + (max_age \div 2)
                            /\ cooldown_tzinfo' = v.tzinfo
               ELSE /\ result' = "ok"
                    /\ UNCHANGED <<force_next, cooldown, cooldown_tzinfo>>
       ELSE /\ result' = "ok"
            /\ UNCHANGED <<force_next, failures, cooldown, cooldown_tzinfo>>
    /\ UNCHANGED <<last_success, last_success_tzinfo>>

\* what a call leaves alone whatever its form
CallFrame == UNCHANGED <<config, history, recorder, polling>>

CallRejected ==
    /\ \E method \in {"check", "success", "fail"} :
          \E form \in CallForms : \E arg \in CallArgs :
             call_rejected(method, form, arg)
    /\ CallFrame

CallCheck ==
    /\ \E form \in CallForms : \E arg \in CallArgs :
          \E clk \in CallClock(form, arg) : call_check(form, arg, clk)
    /\ CallFrame

CallSuccess ==
    /\ \E form \in CallForms : \E arg \in CallArgs :
          \E clk \in CallClock(form, arg) : call_success(form, arg, clk)
    /\ CallFrame

CallFail ==
    /\ \E form \in CallForms : \E arg \in CallArgs :
          \E clk \in CallClock(form, arg) : call_fail(form, arg, clk)
    /\ CallFrame

CallForceNext ==
    /\ variant = "TimeWindow"
    /\ set_force_next
    /\ UNCHANGED history

\* a TimeWindowBarrier of the first configuration of the scenarios, whose
\* local zone is UTC, or a TimeDeltaBarrier built without last_success
CallFormInit ==
    \/ Init /\ local_tz = 0
    \/ TimeDeltaInit /\ last_success = zero_dt /\ delta = 600

CallFormNext ==
    CallRejected \/ CallCheck \/ CallSuccess \/ CallFail \/ CallForceNext

CallFormSpec == CallFormInit /\ [][CallFormNext]_vars

----------------------------------------------------------------------------
(* PollSpec: a TimeWindowBarrier brought to some state by an arbitrary caller,
   who from some point on only calls check, once a minute *)

\* the instants (UTC) of the calls made before the polling starts: in the
\* first hour, the first second of the window, the last second of the window
\* and a second outside it
SetupInstants ==
    { SecondsPerHour + low * SecondsPerMinute - local_tz,
      SecondsPerHour + high * SecondsPerMinute + 59 - local_tz,
      SecondsPerHour + (high + 20) * SecondsPerMinute - local_tz }

SetupArgs == [wall : SetupInstants, tzinfo : {"utc"}]

\* the last instant polled: later than any cooldown instant the calls above
\* can leave, by more than an hour and more than min_age
PollEnd == 3 * SecondsPerHour + max_age

SetupCheck ==
    /\ ~polling
    /\ \E arg \in SetupArgs : check(arg, zero_dt)
    /\ UNCHANGED history

SetupSuccess ==
    /\ ~polling
    /\ \E arg \in SetupArgs : success(arg, zero_dt)
    /\ UNCHANGED history

SetupFail ==
    /\ ~polling
    /\ \E arg \in SetupArgs : fail(arg, zero_dt)
    /\ UNCHANGED history

SetupForceNext ==
    /\ ~polling
    /\ set_force_next
    /\ UNCHANGED history

\* the caller turns to polling; what was observed of the calls before is
\* dropped
StartPolling ==
    /\ ~polling
    /\ polling' = TRUE
    /\ op' = "start polling"
    /\ result' = "ok"
    /\ UNCHANGED <<config, state, now, history, tzinfos, recorder, call>>

\* the polling caller has been allowed
Allowed == polling /\ op = "check" /\ result = "ok"

\* the next check of the polling caller, one minute after the last call; the
\* polling ends with the first check that allows
Poll ==
    /\ polling
    /\ ~Allowed
    /\ now + SecondsPerMinute <= PollEnd
    /\ check([wall |-> now + SecondsPerMinute, tzinfo |-> "utc"], zero_dt)
    /\ UNCHANGED history

PollNext ==
    \/ SetupCheck \/ SetupSuccess \/ SetupFail \/ SetupForceNext
    \/ StartPolling
    \/ Poll

\* time keeps advancing and the caller keeps calling check
PollSpec == Init /\ [][PollNext]_vars /\ WF_vars(Poll)

----------------------------------------------------------------------------
(* RecorderSpec: HistoricalSensor writing its historical states back into the
   states table of the recorder *)

\* wall-clock values (seconds) of the `when` of the states a provider gives
Whens == { 2 * SecondsPerHour, 2 * SecondsPerHour + 30 * SecondsPerMinute }

\* what a provider leaves in _historical_states: DatedState objects, and
\* objects of another type
DatedStates ==
    [dated : {TRUE}, state : {"1.5"},
     when : [wall : Whens, tzinfo : {"naive", "utc"}]]

NotDated == [dated |-> FALSE, state |-> "", when |-> None]

Entries == DatedStates \cup {NotDated}

\* the lists a provider may leave
EntryLists ==
    UNION { [1..n -> Entries] : n \in 0..MaxStates }

\* the value of a column that was not set
NULL == -1

STATE_UNKNOWN == "unknown"
STATE_UNAVAILABLE == "unavailable"

\* _normalize_time_state, for a DatedState: a naive when is taken as local
\* time (as_local), and a when that is not in UTC is converted to UTC
\* (as_utc): the instant is kept, the wall-clock fields become those of UTC
NormalizeWhen(w) ==
    IF w.tzinfo = "naive" THEN [wall |-> w.wall - local_tz, tzinfo |-> "utc"]
    ELSE IF w.tzinfo = "other" THEN [wall |-> w.wall - OtherOffset, tzinfo |-> "utc"]
    ELSE w

\* _normalize_time_state(st): None for what is not a DatedState (here: the
\* entry itself, which the next line of the caller drops)
normalize_time_state(st) ==
    IF st.dated THEN [st EXCEPT !.when = NormalizeWhen(@)] ELSE st

\* dt_util.as_timestamp of a normalized when
as_timestamp(w) == w.wall

\* sorted(..., key=lambda x: x.when) is stable: x goes behind the elements of
\* the sorted list t that are not later than x
SortedInsert(t, x) ==
    LET k == Cardinality({ i \in DOMAIN t :
                              as_timestamp(t[i].when) <= as_timestamp(x.when) })
    IN SubSeq(t, 1, k) \o <<x>> \o SubSeq(t, k + 1, Len(t))

RECURSIVE sorted(_)
sorted(l) ==
    IF Len(l) <= 1 THEN l
    ELSE SortedInsert(sorted(SubSeq(l, 1, Len(l) - 1)), l[Len(l)])

\* the list async_write_ha_historical_states hands to the recorder job
dated_states_of(l) ==
    sorted(SelectSeq([i \in DOMAIN l |-> normalize_time_state(l[i])],
                     LAMBDA st : st.dated))

\* async_update_historical_states, as a sensor overrides it: the provider's
\* data replaces _historical_states
async_update_historical_states ==
    /\ \E l \in EntryLists : historical_states' = l
    /\ op' = "async_update_historical_states"
    /\ UNCHANGED <<States, executor_jobs>>

\* async_write_ha_historical_states: the DatedState objects in the list are
\* normalized in place; the job is added only if a state is left
async_write_ha_historical_states ==
    LET dated_states == dated_states_of(historical_states) IN
    /\ Len(executor_jobs) < 1
    /\ historical_states' =
          [i \in DOMAIN historical_states |->
              normalize_time_state(historical_states[i])]
    /\ executor_jobs' =
          IF dated_states = <<>> THEN executor_jobs
          ELSE Append(executor_jobs, dated_states)
    /\ op' = "async_write_ha_historical_states"
    /\ UNCHANGED States

\* what a row refers to another row by
RowRef(row) == <<row.last_updated_ts, row.state>>

\* base_qs.order_by(States.last_updated.desc()).first(): the rows that may
\* come first.  The order is by the column last_updated; rows that are equal
\* in it come in an order the query does not define
FirstByLastUpdated(rows) ==
    { i \in DOMAIN rows :
         \A j \in DOMAIN rows : rows[j].last_updated <= rows[i].last_updated }

\* the rows the loop of _save_states_into_recorder builds: last_changed_ts
\* and last_updated_ts are set, last_updated is not
RECURSIVE db_states(_, _)
db_states(dated_states, latest_state) ==
    IF dated_states = <<>> THEN <<>>
    ELSE LET n == Len(dated_states)
             before == db_states(SubSeq(dated_states, 1, n - 1), latest_state)
         IN Append(before,
                   [ state |-> dated_states[n].state,
                     last_changed_ts |-> as_timestamp(dated_states[n].when),
                     last_updated_ts |-> as_timestamp(dated_states[n].when),
                     last_updated |-> NULL,
                     old_state |-> IF n > 1 THEN RowRef(before[n - 1])
                                   ELSE latest_state ])

\* _save_states_into_recorder(dated_states), run by the executor of the
\* recorder.  integrity_error: the deletion of the invalid states raised
\* IntegrityError and was rolled back; pick: the row first() returns
save_states_into_recorder(integrity_error, pick) ==
    LET dated_states == Head(executor_jobs)
        valid == IF integrity_error THEN States
                 ELSE SelectSeq(States,
                         LAMBDA r : r.state \notin {STATE_UNKNOWN, STATE_UNAVAILABLE})
        cutoff == as_timestamp(dated_states[1].when)
        kept == SelectSeq(valid, LAMBDA r : ~(r.last_updated_ts >= cutoff))
        latest_state == IF kept = <<>> THEN <<>> ELSE RowRef(kept[pick])
    IN
    /\ integrity_error =>
          \E i \in DOMAIN States :
             States[i].state \in {STATE_UNKNOWN, STATE_UNAVAILABLE}
    /\ kept # <<>> => pick \in FirstByLastUpdated(kept)
    /\ kept = <<>> => pick = 1
    /\ States' = kept \o db_states(dated_states, latest_state)
    /\ executor_jobs' = Tail(executor_jobs)
    /\ op' = "_save_states_into_recorder"
    /\ UNCHANGED historical_states

\* the fields of a barrier, which the sensor does not have
barrier ==
    <<config, state, now, result, history, tzinfos, call, polling>>

AsyncUpdateHistoricalStates ==
    /\ async_update_historical_states
    /\ UNCHANGED barrier

AsyncWriteHaHistoricalStates ==
    /\ async_write_ha_historical_states
    /\ UNCHANGED barrier

SaveStatesIntoRecorder ==
    /\ executor_jobs # <<>>
    /\ \E integrity_error \in BOOLEAN : \E pick \in 1..(Len(States) + 1) :
          save_states_into_recorder(integrity_error, pick)
    /\ UNCHANGED barrier

\* the row the recorder wrote for the entity when hass started: the state of
\* a HistoricalSensor is None, which is recorded as unknown
StartupRows ==
    { <<>> } \cup
    { << [ state |-> STATE_UNKNOWN,
           last_changed_ts |-> t,
           last_updated_ts |-> t,
           last_updated |-> NULL,
           old_state |-> <<>> ] >> : t \in { SecondsPerHour } }

\* HistoricalSensor.__init__; no barrier is there
RecorderInit ==
    /\ historical_states = <<>>
    /\ States \in StartupRows
    /\ executor_jobs = <<>>
    /\ local_tz \in {0, 1800}
    /\ variant = "none"
    /\ allowed_window_minutes = <<0, 0>>
    /\ max_retries = 0
    /\ max_age = 0
    /\ delta = 0
    /\ force_next = FALSE
    /\ failures = 0
    /\ last_success = zero_dt
    /\ cooldown = zero_dt
    /\ op = "init"
    /\ now = zero_dt
    /\ result = "ok"
    /\ pending = FALSE
    /\ prev_success = zero_dt
    /\ everForced = FALSE
    /\ exhausted_at = zero_dt
    /\ streak = 0
    /\ AwareFields
    /\ call = NoCall
    /\ polling = FALSE

RecorderNext ==
    \/ AsyncUpdateHistoricalStates
    \/ AsyncWriteHaHistoricalStates
    \/ SaveStatesIntoRecorder

RecorderSpec == RecorderInit /\ [][RecorderNext]_vars

----------------------------------------------------------------------------
(* Instants the properties below evaluate check at *)

\* the middle minute of the window, in every clock hour
MidWindow ==
    { h * SecondsPerHour + ((low + high) \div 2) * SecondsPerMinute - local_tz :
        h \in 1..Hours }

\* the caller's instants, the middle of the window, and the instants next to
\* the two thresholds check compares now with
Probes ==
    Instants \cup MidWindow \cup
    { cooldown - 1, cooldown, cooldown + 1,
      last_success + (high - low) * 60, last_success + (high - low) * 60 + 1 }

\* the barrier is as __init__ left it
Fresh ==
    /\ ~force_next
    /\ failures = 0
    /\ last_success = zero_dt
    /\ cooldown = zero_dt

\* the outcome of the window rule and the delta rule alone at instant t
WindowAndDelta(t) ==
    IF LocalMinute(t) \notin low..high THEN "UPDATE_WINDOW_CLOSED"
    ELSE IF t - last_success <= (high - low) * 60 THEN "NO_DELTA"
    ELSE "ok"

----------------------------------------------------------------------------
(* C1 *)

\* C1: in every reachable state in which force_next is set, check allows at
\* every instant, whatever cooldown, failures, last_success and the window
\* are; in particular while the instant is before cooldown.
C1_ForceOverride ==
    force_next => \A t \in Probes : Decision(t) = "ok"

\* a check was allowed by the force override during an active cooldown, at a
\* minute outside the window
C1_Witness ==
    /\ op = "check"
    /\ result = "ok"
    /\ force_next
    /\ now < cooldown
    /\ LocalMinute(now) \notin low..high

----------------------------------------------------------------------------
(* C2 *)

\* C2: whenever force_next is not set and the instant is before cooldown,
\* check denies with COOLDOWN, for every value of failures and whether or not
\* the window is open.
C2_ActiveCooldown ==
    ~force_next => \A t \in Probes : t < cooldown => Decision(t) = "COOLDOWN"

\* a check was denied with COOLDOWN in the middle of a retry burst, at a minute
\* inside the window
C2_Witness ==
    /\ op = "check"
    /\ result = "COOLDOWN"
    /\ ~force_next
    /\ failures > 0
    /\ failures < max_retries
    /\ LocalMinute(now) \in low..high

----------------------------------------------------------------------------
(* C3 *)

\* C3: whenever force_next is not set, the instant is not before cooldown and
\* 0 < failures < max_retries, check allows, also at a minute outside the
\* window and also when the last success is not older than min_age.
C3_RetryInProgress ==
    (~force_next /\ failures > 0 /\ failures < max_retries) =>
        \A t \in Probes : t >= cooldown => Decision(t) = "ok"

\* a retry was allowed at a minute outside the window, one that the delta
\* rule would have denied as well
C3_Witness ==
    /\ op = "check"
    /\ result = "ok"
    /\ ~force_next
    /\ failures > 0
    /\ failures < max_retries
    /\ now >= cooldown
    /\ LocalMinute(now) \notin low..high
    /\ last_success # zero_dt
    /\ now - last_success <= (high - low) * 60

----------------------------------------------------------------------------
(* C4 *)

\* C4: when force_next is not set, the instant is not before cooldown and
\* failures is 0 after the lazy reset, check denies with UPDATE_WINDOW_CLOSED
\* exactly when the local minute of the instant is outside low..high, whatever
\* last_success is; and a fresh barrier checked at a minute inside the window,
\* minute low and minute high included, is allowed.
C4_WindowRule ==
    /\ ~force_next =>
          \A t \in Probes :
             (t >= cooldown /\ LazyReset(t) = 0) =>
                (Decision(t) = "UPDATE_WINDOW_CLOSED"
                    <=> LocalMinute(t) \notin low..high)
    /\ Fresh =>
          \A t \in Instants \cup MidWindow :
             LocalMinute(t) \in low..high => Decision(t) = "ok"

\* a barrier that never succeeded and never failed was checked at minute high
\* and allowed
C4_Witness ==
    /\ op = "check"
    /\ result = "ok"
    /\ Fresh
    /\ LocalMinute(now) = high

----------------------------------------------------------------------------
(* C5 *)

\* C5 as stated: in every run of a caller that follows the protocol, with or
\* without force_next, two successive successes are more than
\* (high - low) * 60 seconds apart.
C5_OnePerWindowLength ==
    prev_success # zero_dt =>
        last_success - prev_success > (high - low) * 60

\* C5 amended: in every run of a caller that follows the protocol and never
\* calls force_next, two successive successes are more than
\* (high - low) * 60 seconds apart.
C5_OnePerWindowLengthUnforced ==
    (prev_success # zero_dt /\ ~everForced) =>
        last_success - prev_success > (high - low) * 60

\* a caller that follows the protocol and never forced has reported a second
\* success, in the clock hour of the first one
C5_Witness ==
    /\ op = "success"
    /\ ~pending
    /\ prev_success # zero_dt
    /\ ~everForced
    /\ LocalHour(last_success) = LocalHour(prev_success)

----------------------------------------------------------------------------
(* C6 *)

\* C6 as stated: after success(t0) with t0 inside the open window, and no
\* cooldown active, check(t0 + 1s) denies with NO_DELTA, for every such t0.
C6_NoDeltaOneSecondLater ==
    (op = "success" /\ LocalMinute(now) \in low..high /\ now + 1 >= cooldown) =>
        Decision(now + 1) = "NO_DELTA"

\* C6 amended: after success(t0) with t0 inside the open window, and no
\* cooldown active, check(t0 + 1s) denies with UPDATE_WINDOW_CLOSED when t0 is
\* the last second of minute high, and otherwise denies with NO_DELTA when
\* low < high; when low = high and t0 + 1s is still in the window it allows.
C6_OneSecondLater ==
    (op = "success" /\ LocalMinute(now) \in low..high /\ now + 1 >= cooldown) =>
        Decision(now + 1) =
            IF LocalMinute(now + 1) \notin low..high THEN "UPDATE_WINDOW_CLOSED"
            ELSE IF low < high THEN "NO_DELTA"
            ELSE "ok"

\* one second after a success inside the window, a check was denied with
\* NO_DELTA
C6_Witness ==
    /\ op = "check"
    /\ result = "NO_DELTA"
    /\ failures = 0
    /\ ~force_next
    /\ now >= cooldown
    /\ last_success # zero_dt
    /\ LocalMinute(last_success) \in low..high
    /\ now = last_success + 1

----------------------------------------------------------------------------
(* C7 *)

\* t is a later instant of the occurrence of the window that t0 lies in
LaterInSameSlot(t0, t) ==
    /\ t > t0
    /\ LocalHour(t) = LocalHour(t0)
    /\ LocalMinute(t0) \in low..high
    /\ LocalMinute(t) \in low..high

\* C7: with force_next never called and no failures recorded, after a success
\* at an instant inside one occurrence of the window every check at a later
\* instant of that occurrence is denied.
C7_OneSuccessPerSlot ==
    (last_success # zero_dt /\ ~everForced /\ failures = 0) =>
        \A t \in Instants :
            LaterInSameSlot(last_success, t) => Decision(t) # "ok"

----------------------------------------------------------------------------
(* C8 *)

\* C8: fail(now) adds exactly 1 to failures; if failures is then at least
\* max_retries it clears force_next and sets cooldown to now + max_age / 2,
\* else it leaves force_next and cooldown as they were; last_success is
\* unchanged in both cases.
C8_FailEffect ==
    [][op' = "fail" =>
          /\ failures' = failures + 1
          /\ last_success' = last_success
          /\ IF failures + 1 >= max_retries
             THEN force_next' = FALSE /\ 2 * (cooldown' - now') = max_age
             ELSE force_next' = force_next /\ cooldown' = cooldown
          /\ config' = config]_vars

\* a failure that did not exhaust the retries has left force_next set and the
\* cooldown of an earlier burst in place
C8_Witness ==
    /\ op = "fail"
    /\ force_next
    /\ failures > 0
    /\ failures < max_retries
    /\ cooldown # zero_dt
    /\ last_success # zero_dt

----------------------------------------------------------------------------
(* C9 *)

\* C9: success(now) clears force_next, sets failures to 0 and last_success to
\* now, from any state, and changes nothing else.
C9_SuccessEffect ==
    [][op' = "success" =>
          /\ force_next' = FALSE
          /\ failures' = 0
          /\ last_success' = now'
          /\ cooldown' = cooldown
          /\ config' = config]_vars

\* a success was recorded during an active cooldown, which is still active
C9_Witness ==
    /\ op = "success"
    /\ ~force_next
    /\ failures = 0
    /\ last_success = now
    /\ now < cooldown

----------------------------------------------------------------------------
(* C10 *)

\* C10: on a fresh barrier with max_age > 0, the last of max_retries
\* consecutive fail(now) calls has set cooldown to now + max_age / 2 and has
\* cleared force_next; check(now) right after it denies with COOLDOWN; a check
\* at an instant not before cooldown resets failures to 0 and is then decided
\* by the window and delta rules alone.
C10_ScenarioC ==
    /\ (op = "fail" /\ streak = max_retries /\ max_age > 0) =>
          /\ 2 * (cooldown - now) = max_age
          /\ ~force_next
          /\ Decision(now) = "COOLDOWN"
          /\ LazyReset(now) = failures
    /\ (streak = max_retries /\ max_age > 0) =>
          \A t \in Probes :
             t >= cooldown =>
                /\ LazyReset(t) = 0
                /\ Decision(t) = WindowAndDelta(t)
    /\ (op = "check" /\ streak = max_retries /\ max_age > 0 /\ now >= cooldown) =>
          /\ failures = 0
          /\ result = WindowAndDelta(now)

\* after max_retries failures on a fresh barrier, a check at an instant not
\* before cooldown has reset failures and was allowed
C10_Witness ==
    /\ op = "check"
    /\ streak = max_retries
    /\ now >= cooldown
    /\ cooldown # zero_dt
    /\ failures = 0
    /\ result = "ok"

----------------------------------------------------------------------------
(* C11 *)

\* C11: 0 <= failures <= max_retries in every reachable state, after any
\* sequence of check, success, fail and force_next calls.
C11_FailuresInRange ==
    failures >= 0 /\ failures <= max_retries

----------------------------------------------------------------------------
(* C13 *)

\* C13: a check repeated with the same now, with no success, fail or
\* force_next in between, gives the decision of the first one and leaves the
\* state as the first one left it.
C13_CheckRepeatable ==
    [][(op = "check" /\ op' = "check" /\ now' = now) =>
          (result' = result /\ state' = state)]_vars

\* the check that made the lazy reset was repeated at the same instant: the
\* first one has set failures to 0, the second one finds it at 0
C13_Witness ==
    /\ op = "check"
    /\ streak = max_retries
    /\ exhausted_at # zero_dt
    /\ now >= cooldown
    /\ failures = 0
    /\ result = "UPDATE_WINDOW_CLOSED"

----------------------------------------------------------------------------
(* C14 *)

\* C14: force_next() sets the flag; set, it stays set across every check,
\* which it makes allow, and across every fail that leaves failures below
\* max_retries; it is cleared only by success or by a fail that leaves
\* failures >= max_retries.
C14_ForceLifetime ==
    [][/\ op' = "force_next" => force_next'
       /\ (force_next /\ op' = "check") => (force_next' /\ result' = "ok")
       /\ (force_next /\ op' = "fail" /\ failures' < max_retries) => force_next'
       /\ (force_next /\ ~force_next') =>
             \/ op' = "success"
             \/ op' = "fail" /\ failures' >= max_retries]_vars

\* Scenario D: the flag has survived a failure that did not exhaust the
\* retries, and the check after it was allowed during an active cooldown
C14_Witness ==
    /\ op = "check"
    /\ result = "ok"
    /\ force_next
    /\ failures = 1
    /\ failures < max_retries
    /\ now < cooldown

----------------------------------------------------------------------------
(* C15 *)

\* C15: cooldown is epoch-zero as long as no fail call has left failures >=
\* max_retries, and afterwards it is the instant of the last such call plus
\* max_age / 2: no other call changes it.  A success recorded before the
\* cooldown instant leaves it in place, and an unforced check before that
\* instant is denied with COOLDOWN although failures is 0.
C15_CooldownInvariant ==
    /\ exhausted_at = zero_dt => cooldown = zero_dt
    /\ exhausted_at # zero_dt => 2 * (cooldown - exhausted_at) = max_age
    /\ (op = "success" /\ now < cooldown) =>
          /\ failures = 0
          /\ \A t \in Probes :
                (now <= t /\ t < cooldown) => Decision(t) = "COOLDOWN"

\* after a success recorded during the cooldown, a check before the cooldown
\* instant was denied with COOLDOWN although failures is 0
C15_Witness ==
    /\ op = "check"
    /\ result = "COOLDOWN"
    /\ failures = 0
    /\ ~force_next
    /\ last_success > exhausted_at
    /\ exhausted_at # zero_dt
    /\ now >= last_success
    /\ now < cooldown

----------------------------------------------------------------------------
(* C16 *)

\* C16: for a caller that follows the protocol and never calls force_next,
\* with max_age > 0: an attempt is admitted only while failures is below
\* max_retries, so a burst has at most max_retries failed attempts; after the
\* fail at t that was the max_retries-th of the burst every check at t' with
\* t <= t' < t + max_age / 2 is denied with COOLDOWN, and no attempt is
\* admitted before the cooldown instant.
C16_BoundedRetryBurst ==
    (~everForced /\ max_age > 0) =>
        /\ failures <= max_retries
        /\ pending => (failures < max_retries /\ now >= cooldown)
        /\ exhausted_at # zero_dt =>
              \A t \in Probes :
                 (exhausted_at <= t /\ 2 * (t - exhausted_at) < max_age) =>
                    Decision(t) = "COOLDOWN"

\* after max_retries failed attempts in a row, the caller's next check was
\* denied with COOLDOWN
C16_Witness ==
    /\ op = "check"
    /\ result = "COOLDOWN"
    /\ ~everForced
    /\ ~pending
    /\ streak = max_retries
    /\ failures = max_retries
    /\ exhausted_at # zero_dt
    /\ now >= exhausted_at

----------------------------------------------------------------------------
(* C12: check never mutates state: for a barrier of any class, in every
   reachable state and for every now, force_next, failures, last_success and
   cooldown have the same values after check as before it, whether check
   allows or denies. *)
C12_CheckNeverMutates ==
    [][op' = "check" => state' = state]_vars

(* C12, amended: check changes nothing but failures, and failures only in a
   TimeWindowBarrier whose retries are exhausted and whose cooldown instant
   has been reached, where check sets it to 0. *)
C12_CheckFrame ==
    [][op' = "check" =>
          /\ force_next' = force_next
          /\ last_success' = last_success
          /\ cooldown' = cooldown
          /\ config' = config
          /\ failures' =
                IF /\ variant = "TimeWindow"
                   /\ failures >= max_retries
                   /\ now' >= cooldown
                THEN 0
                ELSE failures]_vars

\* a check at the cooldown instant, after max_retries failures in a row, has
\* set failures to 0
C12_Witness ==
    /\ variant = "TimeWindow"
    /\ op = "check"
    /\ streak = max_retries
    /\ exhausted_at # zero_dt
    /\ now = cooldown
    /\ failures = 0

----------------------------------------------------------------------------
(* C17: TimeDeltaBarrier.check(now) denies, with NO_MAX_AGE, if and only if
   now - last_success < delta; at now - last_success = delta it allows; the
   decision is a function of now, last_success and delta alone, and check
   leaves last_success unchanged. *)
C17_TimeDeltaDecision ==
    [][(variant = "TimeDelta" /\ op' = "check") =>
          /\ result' \in {"ok", "NO_MAX_AGE"}
          /\ (result' = "NO_MAX_AGE") <=> (now' - last_success < delta)
          /\ (now' - last_success = delta) => (result' = "ok")
          /\ last_success' = last_success]_vars

\* a check exactly delta seconds after a recorded success was allowed
C17_Witness ==
    /\ variant = "TimeDelta"
    /\ op = "check"
    /\ result = "ok"
    /\ delta > 0
    /\ last_success # zero_dt
    /\ now - last_success = delta

----------------------------------------------------------------------------
(* C18: in a TimeDeltaBarrier last_success moves only in a success call, to
   the timestamp of that call; fail and check never change it, so that fail
   calls between two checks at the same now leave the decision of the check
   unchanged. *)
C18_TimeDeltaDiscipline ==
    [][variant = "TimeDelta" =>
          /\ (op' = "success") => (last_success' = now')
          /\ (last_success' # last_success) => (op' = "success")
          /\ (op' = "fail") =>
                /\ state' = state
                /\ \A t \in DeltaInstants :
                      TimeDeltaBarrier_Decision(t)' = TimeDeltaBarrier_Decision(t)]_vars

\* a fail call at a later instant than the recorded success, which a check at
\* that instant denies
C18_Witness ==
    /\ variant = "TimeDelta"
    /\ op = "fail"
    /\ last_success # zero_dt
    /\ now > last_success
    /\ TimeDeltaBarrier_Decision(now) = "NO_MAX_AGE"

----------------------------------------------------------------------------
(* C19: a NoopBarrier allows always: whatever calls were made, with or
   without a now timestamp, check allows, success and fail raise nothing, and
   dump returns the empty mapping. *)
C19_NoopAlwaysAllows ==
    (variant = "Noop" /\ op \in {"check", "success", "fail", "dump"}) =>
        /\ result = "ok"
        /\ DumpKeys = {}

----------------------------------------------------------------------------
(* C20: dump is a read-only snapshot: for a barrier of any class and in every
   reachable state, dump() returns the mapping with exactly the keys max_age
   and last_success (TimeDelta), max_age, max_retries,
   allowed_window_minutes, cooldown, force_next, last_success and failures
   (TimeWindow), or no key (Noop), and leaves the state of the barrier
   unchanged. *)
C20_DumpSnapshot ==
    [][op' = "dump" =>
          /\ result' = "ok"
          /\ state' = state
          /\ DumpKeys =
                CASE variant = "TimeWindow" ->
                       {"max_age", "max_retries", "allowed_window_minutes",
                        "cooldown", "force_next", "last_success", "failures"}
                  [] variant = "TimeDelta" -> {"max_age", "last_success"}
                  [] variant = "Noop" -> {}]_vars

----------------------------------------------------------------------------
(* C21: for every call of check, success or fail of a TimeDeltaBarrier or a
   TimeWindowBarrier that supplies a timestamp, by keyword or by position,
   the timestamp the method compares or stores is zone-aware: one supplied
   without a zone is labelled UTC with its wall-clock fields unchanged, so
   that last_success and cooldown stay zone-aware. *)
C21_TimestampNormalization ==
    [][(/\ op' \in {"check", "success", "fail"}
        /\ call'.arg \in TzInfos
        /\ Aware(LastSuccess)
        /\ Aware(Cooldown))
       =>
       (/\ result' \notin Errors
        /\ Aware(LastSuccess')
        /\ Aware(Cooldown')
        /\ (op' = "success" /\ call'.arg = "naive") =>
              (last_success_tzinfo' = "utc" /\ last_success' = now'))]_vars

----------------------------------------------------------------------------
(* C22: a call of check, success or fail of a TimeDeltaBarrier or a
   TimeWindowBarrier whose timestamp argument is not a timestamp, however it
   is passed, is rejected with an error, and force_next, failures,
   last_success and cooldown are after it what they were before. *)
C22_FailFast ==
    [][(/\ op' \in {"check", "success", "fail"}
        /\ call'.arg \in {"str", "int 0"})
       =>
       (/\ result' \in Errors
        /\ state' = state
        /\ tzinfos' = tzinfos)]_vars

----------------------------------------------------------------------------
(* C23: no permanent denial: for a TimeWindowBarrier with low <= high and
   max_retries >= 1, from every state that check, success, fail and
   force_next calls can reach, a caller who keeps calling check while time
   advances is allowed by some later check. *)
C23_NoPermanentDenial == polling ~> Allowed

\* the polling caller was allowed by the first check at or after the cooldown
\* instant, which found the retries exhausted and reset failures
C23_Witness ==
    /\ Allowed
    /\ ~force_next
    /\ failures = 0
    /\ cooldown # zero_dt
    /\ last_success # zero_dt
    /\ last_success < cooldown - (max_age \div 2)
    /\ now >= cooldown
    /\ now - SecondsPerMinute < cooldown

----------------------------------------------------------------------------
(* Parts of the write-back property, as properties of one step *)

\* async_write_ha_historical_states hands over the DatedState entries, and
\* only them, in ascending order of when, and only if there is one
WriteStep ==
    LET dated == SelectSeq(historical_states, LAMBDA st : st.dated) IN
    /\ (executor_jobs' # executor_jobs) <=> (dated # <<>>)
    /\ dated # <<>> =>
          LET job == executor_jobs'[Len(executor_jobs')] IN
          /\ executor_jobs' = Append(executor_jobs, job)
          /\ Len(job) = Len(dated)
          /\ \A i \in DOMAIN job : job[i].dated /\ job[i].when.tzinfo = "utc"
          /\ \A i \in DOMAIN job : \A j \in DOMAIN job :
                i < j => as_timestamp(job[i].when) <= as_timestamp(job[j].when)

\* the rows stored after _save_states_into_recorder, at or after the earliest
\* new when and before it
RowsFrom(rows, cutoff) == SelectSeq(rows, LAMBDA r : r.last_updated_ts >= cutoff)
RowsBefore(rows, cutoff) == SelectSeq(rows, LAMBDA r : r.last_updated_ts < cutoff)

\* the stored states at or after the earliest new when are exactly the new
\* ones, in their order; no state before it is new
SaveStepReplaces ==
    LET job == Head(executor_jobs)
        cutoff == as_timestamp(job[1].when)
        new == RowsFrom(States', cutoff)
        old == RowsBefore(States', cutoff)
    IN
    /\ Len(new) = Len(job)
    /\ \A i \in DOMAIN new :
          /\ new[i].last_updated_ts = as_timestamp(job[i].when)
          /\ new[i].state = job[i].state
    /\ \A i \in DOMAIN old : \E j \in DOMAIN States : States[j] = old[i]

\* each new state but the first has the new state before it as old_state
SaveStepChain ==
    LET new == RowsFrom(States', as_timestamp(Head(executor_jobs)[1].when)) IN
    \A i \in DOMAIN new : i > 1 => new[i].old_state = RowRef(new[i - 1])

\* the first new state has as old_state the latest state that is left in the
\* table, or none
SaveStepFirstOldState ==
    LET cutoff == as_timestamp(Head(executor_jobs)[1].when)
        new == RowsFrom(States', cutoff)
        old == RowsBefore(States', cutoff)
    IN
    IF old = <<>>
    THEN new[1].old_state = <<>>
    ELSE \E i \in DOMAIN old :
            /\ \A j \in DOMAIN old : old[j].last_updated_ts <= old[i].last_updated_ts
            /\ new[1].old_state = RowRef(old[i])

----------------------------------------------------------------------------
(* C24: async_write_ha_historical_states drops every entry that is not a
   DatedState, sorts the rest ascending by when and schedules a recorder job
   only if one remains; _save_states_into_recorder deletes every stored state
   with last_updated_ts >= the earliest new when before it inserts, so that
   afterwards the stored states at or after that instant are exactly the new
   ones, each new state's old_state is the new state before it, and the first
   new state's old_state is the latest state left in the table (or none). *)
C24_WriteBackOrdering ==
    [][/\ (op' = "async_write_ha_historical_states") => WriteStep
       /\ (op' = "_save_states_into_recorder") =>
             (SaveStepReplaces /\ SaveStepChain /\ SaveStepFirstOldState)]_vars

====
